---- MODULE Spec2Model ----
(***************************************************************************)
(* A model of skll's example loading (src/skll/data.py) and of the         *)
(* prediction wrapper (src/generate_predictions.py).                       *)
(*                                                                         *)
(* Text is a sequence of one-character strings.  A line of a file is its   *)
(* text without the line terminator.  A line of a .tsv file is the         *)
(* sequence of its fields as csv.reader returns them (the empty line is    *)
(* the empty sequence), and a line of a .jsonlines file is the object      *)
(* json.loads returns for it (or Malformed when json.loads raises).        *)
(***************************************************************************)
EXTENDS Integers, Sequences, FiniteSets, TLC

VARIABLES
    path,        \* load_examples / iterator argument: the file's path
    has_labels,  \* argument has_labels
    quiet,       \* argument quiet
    file,        \* the content of the file at path: a sequence of lines
    gen,         \* one generator instance of an example iterator, and what it yielded
    pc,          \* load_examples: position of the calling process
    example_gen_func, \* load_examples: the iterator chosen by the suffix
    worker,      \* load_examples: the three pool workers
    opened,      \* number of open() calls made on the file so far
    local,       \* load_examples: ids, classes, features once fetched with get()
    outcome,     \* load_examples: what the call returned or raised
    examples,    \* comparison runs: the logical examples the files encode
    table,       \* comparison runs: the tables loaded so far
    predictor,   \* Predictor: its fields, the classifier's output and predict's result
    preds_out    \* Predictor.predict: the returned list

vars == <<path, has_labels, quiet, file, gen, pc, example_gen_func, worker,
          opened, local, outcome, examples, table, predictor, preds_out>>

(***************************************************************************)
(* Bounds of the model.                                                    *)
(***************************************************************************)
MaxLines == 3

MaxLoadLines == 2

MaxExamples == 2

MaxPreds == 2

(***************************************************************************)
(* Values: Python floats, strings and None.  A float is the exact decimal  *)
(* m * 10^-e, normalised so that e is as small as possible.                *)
(***************************************************************************)
None == [t |-> "none", m |-> 0, e |-> 0, s |-> <<>>]

Str(s) == [t |-> "str", m |-> 0, e |-> 0, s |-> s]

RECURSIVE Normalise(_, _)
Normalise(m, e) ==
    IF e > 0 /\ m % 10 = 0 THEN Normalise(m \div 10, e - 1)
    ELSE [t |-> "float", m |-> m, e |-> e, s |-> <<>>]

Float(m, e) == Normalise(m, e)

EmptyDict == [k \in {} |-> None]

(***************************************************************************)
(* Text primitives of Python used by the loaders.                          *)
(***************************************************************************)
Whitespace == {" ", "\t"}

DigitChars == <<"0", "1", "2", "3", "4", "5", "6", "7", "8", "9">>

IsDigit(c) == \E i \in 1..Len(DigitChars) : DigitChars[i] = c

DigitVal(c) == (CHOOSE i \in 1..Len(DigitChars) : DigitChars[i] = c) - 1

RECURSIVE lstrip(_)
lstrip(s) ==
    IF s # <<>> /\ Head(s) \in Whitespace THEN lstrip(Tail(s)) ELSE s

RECURSIVE rstrip(_)
rstrip(s) ==
    IF s # <<>> /\ s[Len(s)] \in Whitespace
    THEN rstrip(SubSeq(s, 1, Len(s) - 1)) ELSE s

strip(s) == rstrip(lstrip(s))

startswith(s, prefix) ==
    Len(s) >= Len(prefix) /\ SubSeq(s, 1, Len(prefix)) = prefix

endswith(s, suffix) ==
    Len(s) >= Len(suffix) /\ SubSeq(s, Len(s) - Len(suffix) + 1, Len(s)) = suffix

\* str.split(): the maximal runs of non-whitespace characters, in order.
RECURSIVE split_acc(_, _, _)
split_acc(s, cur, acc) ==
    IF s = <<>> THEN (IF cur = <<>> THEN acc ELSE Append(acc, cur))
    ELSE IF Head(s) \in Whitespace
         THEN split_acc(Tail(s), <<>>, IF cur = <<>> THEN acc ELSE Append(acc, cur))
         ELSE split_acc(Tail(s), Append(cur, Head(s)), acc)

split(s) == split_acc(s, <<>>, <<>>)

\* '{}'.format(n) for a natural number n.
RECURSIVE format_int(_)
format_int(n) ==
    IF n < 10 THEN <<DigitChars[n + 1]>>
    ELSE format_int(n \div 10) \o <<DigitChars[(n % 10) + 1]>>

\* ord(): the code points of the characters the model's files are written in.
\* NonAscii stands for the character U+00E9.
NonAscii == "U+00E9"

OrdTable ==
    { <<"\t", 9>>, <<" ", 32>>, <<"#", 35>>, <<"+", 43>>, <<"-", 45>>,
      <<".", 46>>, <<"=", 61>>, <<"_", 95>>, <<NonAscii, 233>> }
    \cup { <<DigitChars[i], 47 + i>> : i \in 1..10 }

ord(c) ==
    IF \E p \in OrdTable : p[1] = c
    THEN (CHOOSE p \in OrdTable : p[1] = c)[2]
    ELSE 65   \* every other character of the model is an ASCII letter

(***************************************************************************)
(* _sanitize_line (data.py 144-156)                                        *)
(***************************************************************************)
RECURSIVE _sanitize_line(_)
_sanitize_line(line) ==
    IF line = <<>> THEN <<>>
    ELSE LET char == Head(line)
             char_num == ord(char)
         IN  (IF char_num > 127
              THEN <<"<", "U">> \o format_int(char_num) \o <<">">>
              ELSE <<char>>) \o _sanitize_line(Tail(line))

(***************************************************************************)
(* float(text) for the decimal literals [sign] digits [. digits] and       *)
(* [sign] . digits, surrounded by optional whitespace.  The model's files  *)
(* hold no exponent, "inf", "nan" or "_" inside a number.                  *)
(***************************************************************************)
RECURSIVE digits_value(_)
digits_value(ds) ==
    IF ds = <<>> THEN 0
    ELSE 10 * digits_value(SubSeq(ds, 1, Len(ds) - 1)) + DigitVal(ds[Len(ds)])

float_parses(text) ==
    LET t == strip(text)
        u == IF t # <<>> /\ t[1] \in {"+", "-"} THEN Tail(t) ELSE t
        dots == {i \in 1..Len(u) : u[i] = "."}
    IN  /\ Cardinality(dots) <= 1
        /\ Len(u) > Cardinality(dots)
        /\ \A i \in 1..Len(u) : u[i] = "." \/ IsDigit(u[i])

float_of(text) ==
    LET t == strip(text)
        neg == t # <<>> /\ t[1] = "-"
        u == IF t # <<>> /\ t[1] \in {"+", "-"} THEN Tail(t) ELSE t
        dots == {i \in 1..Len(u) : u[i] = "."}
        d == IF dots = {} THEN Len(u) + 1 ELSE CHOOSE i \in dots : TRUE
        whole == SubSeq(u, 1, d - 1)
        frac == SubSeq(u, d + 1, Len(u))
        m == digits_value(whole \o frac)
    IN  Float(IF neg THEN 0 - m ELSE m, Len(frac))

(***************************************************************************)
(* _safe_float (data.py 159-167).  text is a Str value; the result is the  *)
(* float when float() accepts the text and the argument itself when        *)
(* float() raises ValueError.  float(None) raises TypeError, which is not  *)
(* caught: _safe_float_raises.                                             *)
(***************************************************************************)
_safe_float_raises(text) == text.t # "str"

_safe_float(text) ==
    IF float_parses(text.s) THEN float_of(text.s) ELSE text

(***************************************************************************)
(* Generators.  A generator instance is a record g: pc is "created" until  *)
(* it is first advanced, "running" inside the loop over the file (pos      *)
(* lines consumed), "done" when the body returned and "raised" when it     *)
(* raised; stderr is what it printed.  One step handles one line of the    *)
(* file and returns the new instance and the triples yielded (none or      *)
(* one).  The statements after a yield run in the step that yields.        *)
(***************************************************************************)
TickEvery == 100

new_generator ==
    [pc |-> "created", pos |-> 0, example_num |-> 0, curr_id |-> None,
     stderr |-> <<>>]

Triple(curr_id, class_name, features) ==
    [id |-> curr_id, class_name |-> class_name, features |-> features]

EXAMPLE_ == <<"E", "X", "A", "M", "P", "L", "E", "_">>

\* 'EXAMPLE_{}'.format(n)
example_id(n) == Str(EXAMPLE_ \o format_int(n))

\* print(..., file=sys.stderr) unless quiet
print_unless(q, out, notice) == IF q THEN out ELSE Append(out, notice)

\* if not quiet and example_num % 100 == 0: print(".", ...)
tick(q, out, n) == IF ~q /\ n % TickEvery = 0 THEN Append(out, ".") ELSE out

Raised(g) == [g |-> [g EXCEPT !.pc = "raised"], yielded |-> <<>>]

(***************************************************************************)
(* _megam_dict_iter (data.py 204-266)                                      *)
(***************************************************************************)
TRAIN == <<"T", "R", "A", "I", "N">>

TEST == <<"T", "E", "S", "T">>

DEV == <<"D", "E", "V">>

\* lines 219-224: the notice, open(path, 'rb'), the two initialisations
_megam_dict_iter_start(g, q, readable) ==
    LET printed == print_unless(q, g.stderr, "Loading")
    IN  IF readable
        THEN [g EXCEPT !.pc = "running", !.stderr = printed,
                       !.example_num = 0, !.curr_id = example_id(0)]
        ELSE [g EXCEPT !.pc = "raised", !.stderr = printed]

\* a mutation of megam_pairs: a name keeps its first value
megam_pairs_first(field_pairs) ==
    LET n == Len(field_pairs) \div 2
        field_names == [j \in 1..n |-> field_pairs[2 * j - 1]]
        field_values == [j \in 1..n |-> _safe_float(Str(field_pairs[2 * j]))]
        first(name) == CHOOSE j \in 1..n :
                           /\ field_names[j] = name
                           /\ \A k \in 1..(j - 1) : field_names[k] # name
    IN  [name \in {field_names[j] : j \in 1..n} |-> field_values[first(name)]]

\* lines 243-254: the dictionary built from the name, value pairs.  zip stops
\* at the shorter of names and values; update keeps a name's last value.
megam_pairs(field_pairs) ==
    LET n == Len(field_pairs) \div 2
        field_names == [j \in 1..n |-> field_pairs[2 * j - 1]]
        field_values == [j \in 1..n |-> _safe_float(Str(field_pairs[2 * j]))]
        last(name) == CHOOSE j \in 1..n :
                          /\ field_names[j] = name
                          /\ \A k \in (j + 1)..n : field_names[k] # name
    IN  [name \in {field_names[j] : j \in 1..n} |-> field_values[last(name)]]

\* a mutation of megam_field_pairs: the first token is always left out
megam_field_pairs_tail(split_line, hl) == Tail(split_line)

\* lines 236-241: the tokens that hold the feature names and values
megam_field_pairs(split_line, hl) == IF hl THEN Tail(split_line) ELSE split_line

\* a mutation of megam_is_instance: TRAIN is not recognised as a marker
megam_is_instance_train(line) == line # <<>> /\ line \notin {TEST, DEV}

\* line 232: the line holds an instance
megam_is_instance(line) == line # <<>> /\ line \notin {TRAIN, TEST, DEV}

\* lines 225-264: one iteration of the loop over the file's lines.  The bytes
\* of a line are decoded by UnicodeDammit before line 228; the model's lines
\* are the decoded characters.
_megam_dict_iter_line(g, raw, hl, q) ==
    LET line == _sanitize_line(strip(raw))
        g1 == [g EXCEPT !.pos = g.pos + 1]
    IN  IF startswith(line, <<"#">>)
        THEN [g |-> [g1 EXCEPT !.curr_id = Str(strip(Tail(line)))],
              yielded |-> <<>>]
        ELSE IF megam_is_instance(line)
        THEN LET split_line == split(line)
                 class_name == IF hl THEN Str(split_line[1]) ELSE None
                 field_pairs == megam_field_pairs(split_line, hl)
                 curr_info_dict == IF Len(field_pairs) > 0
                                   THEN megam_pairs(field_pairs)
                                   ELSE EmptyDict
                 n == g.example_num + 1
             IN  [g |-> [g1 EXCEPT !.example_num = n,
                                   !.curr_id = example_id(n),
                                   !.stderr = tick(q, g.stderr, n)],
                  yielded |-> <<Triple(g.curr_id, class_name, curr_info_dict)>>]
        ELSE [g |-> g1, yielded |-> <<>>]

(***************************************************************************)
(* _tsv_dict_iter (data.py 269-312), with csv.DictReader: the first line   *)
(* is the header, empty lines are skipped, a short row is filled with None *)
(* and the fields of a long row beyond the header sit under the key None.  *)
(***************************************************************************)
ID == <<"i", "d">>

\* lines 282-286: the notice, open(path), the reader (which reads the header
\* when its first row is asked for)
_tsv_dict_iter_start(g, q, readable, f) ==
    LET printed == print_unless(q, g.stderr, "Loading")
    IN  IF readable
        THEN [g EXCEPT !.pc = "running", !.stderr = printed,
                       !.pos = IF f = <<>> THEN 0 ELSE 1]
        ELSE [g EXCEPT !.pc = "raised", !.stderr = printed]

\* DictReader's row: dict(zip(fieldnames, row)) filled with None
DictRow(fieldnames, fields) ==
    LET cell(i) == IF i <= Len(fields) THEN Str(fields[i]) ELSE None
        last(name) == CHOOSE i \in 1..Len(fieldnames) :
                          /\ fieldnames[i] = name
                          /\ \A k \in (i + 1)..Len(fieldnames) : fieldnames[k] # name
    IN  [name \in {fieldnames[i] : i \in 1..Len(fieldnames)} |-> cell(last(name))]

\* a mutation of del: the key stays in the row
del_nothing(row, key) == row

\* del row[key]
del(row, key) == [k \in (DOMAIN row) \ {key} |-> row[k]]

\* lines 301-305: the conversion loop over the remaining columns
tsv_convert(row) ==
    [fname \in DOMAIN row |->
        LET fval_float == _safe_float(row[fname])
        IN  IF fval_float # Float(0, 0) THEN fval_float ELSE row[fname]]

\* lines 287-310: one row of the reader
_tsv_dict_iter_line(g, fieldnames, fields, hl, q) ==
    LET g1 == [g EXCEPT !.pos = g.pos + 1]
        example_num == g.example_num
        row0 == DictRow(fieldnames, fields)
        class_name == IF hl THEN row0[fieldnames[1]] ELSE None
        row1 == IF hl THEN del(row0, fieldnames[1]) ELSE row0
        curr_id == IF ID \notin DOMAIN row1 THEN example_id(example_num)
                   ELSE row1[ID]
        row2 == IF ID \notin DOMAIN row1 THEN row1 ELSE del(row1, ID)
    IN  IF fields = <<>> THEN [g |-> g1, yielded |-> <<>>]
        ELSE IF hl /\ fieldnames = <<>> THEN Raised(g1)
        ELSE IF \/ Len(fields) > Len(fieldnames)
                \/ \E fname \in DOMAIN row2 : _safe_float_raises(row2[fname])
        THEN Raised(g1)
        ELSE [g |-> [g1 EXCEPT !.example_num = example_num + 1,
                               !.stderr = tick(q, g.stderr, example_num)],
              yielded |-> <<Triple(curr_id, class_name, tsv_convert(row2))>>]

(***************************************************************************)
(* _json_dict_iter (data.py 170-201)                                       *)
(***************************************************************************)
Malformed == [malformed |-> TRUE]

\* lines 186-189: open(path), then the notice
_json_dict_iter_start(g, q, readable) ==
    IF readable
    THEN [g EXCEPT !.pc = "running", !.stderr = print_unless(q, g.stderr, "Loading")]
    ELSE [g EXCEPT !.pc = "raised"]

\* lines 190-199: one line of the file
_json_dict_iter_line(g, example, hl, q) ==
    LET g1 == [g EXCEPT !.pos = g.pos + 1]
        example_num == g.example_num
        keys == DOMAIN example
    IN  IF example = Malformed THEN Raised(g1)
        ELSE IF hl /\ "y" \notin keys THEN Raised(g1)
        ELSE IF "x" \notin keys THEN Raised(g1)
        ELSE LET curr_id == IF "id" \in keys THEN example.id
                            ELSE example_id(example_num)
                 class_name == IF hl THEN example.y ELSE None
             IN  [g |-> [g1 EXCEPT !.example_num = example_num + 1,
                                   !.stderr = tick(q, g.stderr, example_num)],
                  yielded |-> <<Triple(curr_id, class_name, example.x)>>]

(***************************************************************************)
(* The three iterators behind one interface (example_gen_func).            *)
(***************************************************************************)
gen_start(func, g, q, readable, f) ==
    CASE func = "_tsv_dict_iter" -> _tsv_dict_iter_start(g, q, readable, f)
      [] func = "_json_dict_iter" -> _json_dict_iter_start(g, q, readable)
      [] func = "_megam_dict_iter" -> _megam_dict_iter_start(g, q, readable)

gen_line(func, g, f, hl, q) ==
    CASE func = "_tsv_dict_iter" ->
             _tsv_dict_iter_line(g, f[1], f[g.pos + 1], hl, q)
      [] func = "_json_dict_iter" ->
             _json_dict_iter_line(g, f[g.pos + 1], hl, q)
      [] func = "_megam_dict_iter" ->
             _megam_dict_iter_line(g, f[g.pos + 1], hl, q)

\* the end of the file: the loop ends, "done" is printed, the body returns
gen_end(g, q) ==
    [g EXCEPT !.pc = "done", !.stderr = print_unless(q, g.stderr, "done")]

(***************************************************************************)
(* The files of the model: every sequence of at most MaxLines lines drawn  *)
(* from a pool of lines per format (for .tsv: a header and at most         *)
(* MaxLines rows).                                                         *)
(***************************************************************************)
SeqsUpTo(S, n) == UNION { [1..k -> S] : k \in 0..n }

Funcs == {"_tsv_dict_iter", "_json_dict_iter", "_megam_dict_iter"}

MegamPool ==
    { <<"#", "a">>,                               \* an id line
      <<"#", " ", "b", " ">>,                     \* an id line with blanks
      TRAIN,                                      \* a partition marker
      <<>>,                                       \* an empty line
      <<"A", " ", "f", " ", "1">>,                \* label (or name), pairs
      <<"B", " ", "f", " ", "0", " ", "f", " ", "x", " ", "g">>,  \* a repeated name
      <<"A", "\t", "f">>,                         \* an unpaired token
      <<"A">>,                                    \* a single token
      <<NonAscii, " ", "g", " ", ".", "5", " ">> }  \* a non-ASCII token

TsvHeaders ==
    { <<ID, <<"l">>, <<"f">>>>,
      <<<<"l">>, ID, <<"f">>>>,
      <<<<"l">>, <<"f">>, <<"g">>>>,
      <<<<"l">>, <<"f">>>>,
      <<<<"l">>>>,
      <<<<"f">>, <<"f">>>>,
      <<>> }

TsvFullRows ==
    { << <<"a">>, <<"1">>, <<"0", ".", "0">>, <<"x">> >>,
      << <<"b">>, <<"0">>, <<"x">>, <<"1">> >>,
      << <<"c">>, <<"-", "0">>, <<"3", ".", "5">>, <<"0">> >>,
      << <<"d">>, <<>>, <<"1">>, <<"x">> >> }                 \* an empty field

\* rows as wide as the header, the empty line, one short and one long row
TsvRows(fieldnames) ==
    LET w == Len(fieldnames)
        r1 == CHOOSE r \in TsvFullRows : r[1] = <<"a">>
    IN  { SubSeq(r, 1, w) : r \in TsvFullRows }
        \cup { <<>>, SubSeq(r1, 1, w + 1) }
        \cup (IF w > 1 THEN { SubSeq(r1, 1, w - 1) } ELSE {})

\* the example of the specification: id, label, f1, f2
ExampleTsv ==
    << << ID, <<"l", "a", "b", "e", "l">>, <<"f", "1">>, <<"f", "2">> >>,
       << <<"e", "x", "1">>, <<"A">>, <<"1", ".", "0">>, <<"0", ".", "0">> >>,
       << <<"e", "x", "2">>, <<"B">>, <<"0", ".", "0">>, <<"3", ".", "5">> >> >>

F1 == [k \in {<<"f">>} |-> Float(1, 0)]

F0x == [k \in {<<"f">>, <<"g">>} |->
           IF k = <<"f">> THEN Float(0, 0) ELSE Str(<<"x">>)]

JsonPool ==
    { [id |-> Str(<<"a">>), y |-> Str(<<"A">>), x |-> F1],
      [y |-> Str(<<"B">>), x |-> F0x],
      [x |-> F1],
      [id |-> Str(<<"b">>), y |-> Str(<<"A">>)],
      Malformed }

Files(func, n) ==
    CASE func = "_megam_dict_iter" -> SeqsUpTo(MegamPool, n)
      [] func = "_json_dict_iter" -> SeqsUpTo(JsonPool, n)
      [] func = "_tsv_dict_iter" ->
             { <<>>, ExampleTsv }
             \cup UNION { { <<h>> \o rows : rows \in SeqsUpTo(TsvRows(h), n) } :
                          h \in TsvHeaders }

TSV == <<".", "t", "s", "v">>

JSONLINES == <<".", "j", "s", "o", "n", "l", "i", "n", "e", "s">>

MEGAM == <<".", "m", "e", "g", "a", "m">>

PathOf(func) ==
    <<"d">> \o (CASE func = "_tsv_dict_iter" -> TSV
                  [] func = "_json_dict_iter" -> JSONLINES
                  [] func = "_megam_dict_iter" -> MEGAM)

(***************************************************************************)
(* IterSpec: one generator instance of one iterator, advanced line by line *)
(* over a file until it returns or raises.                                 *)
(***************************************************************************)
Idle == "-"

loadVars == <<pc, worker, local, outcome>>

otherVars == <<examples, table, predictor, preds_out>>

IterInit ==
    /\ example_gen_func \in Funcs
    /\ file \in Files(example_gen_func, MaxLines)
    /\ path = PathOf(example_gen_func)
    /\ has_labels \in BOOLEAN
    /\ quiet \in BOOLEAN
    /\ gen = [g |-> new_generator, out |-> <<>>]
    /\ opened = 0
    /\ pc = Idle /\ worker = Idle /\ local = Idle /\ outcome = Idle
    /\ examples = Idle /\ table = Idle /\ predictor = Idle /\ preds_out = Idle

\* the first next(): the body runs up to the loop; open() may raise
IterStart ==
    /\ gen.g.pc = "created"
    /\ \E readable \in BOOLEAN :
          gen' = [gen EXCEPT !.g = gen_start(example_gen_func, gen.g, quiet,
                                             readable, file)]
    /\ opened' = opened + 1
    /\ UNCHANGED <<path, has_labels, quiet, file, example_gen_func>>
    /\ UNCHANGED loadVars /\ UNCHANGED otherVars

IterLine ==
    /\ gen.g.pc = "running"
    /\ gen.g.pos < Len(file)
    /\ LET r == gen_line(example_gen_func, gen.g, file, has_labels, quiet)
       IN  gen' = [g |-> r.g, out |-> gen.out \o r.yielded]
    /\ UNCHANGED <<path, has_labels, quiet, file, example_gen_func, opened>>
    /\ UNCHANGED loadVars /\ UNCHANGED otherVars

IterEnd ==
    /\ gen.g.pc = "running"
    /\ gen.g.pos = Len(file)
    /\ gen' = [gen EXCEPT !.g = gen_end(gen.g, quiet)]
    /\ UNCHANGED <<path, has_labels, quiet, file, example_gen_func, opened>>
    /\ UNCHANGED loadVars /\ UNCHANGED otherVars

IterNext == IterStart \/ IterLine \/ IterEnd

IterSpec == IterInit /\ [][IterNext]_vars

(***************************************************************************)
(* Properties of the iterators (checked under IterSpec).                   *)
(***************************************************************************)
Max(S) == CHOOSE x \in S : \A y \in S : y <= x

IsTsv == example_gen_func = "_tsv_dict_iter"

IsMegam == example_gen_func = "_megam_dict_iter"

\* The generator has just yielded the example of a row that has one field per
\* column of the header.
TsvRowYielded ==
    /\ IsTsv
    /\ gen.g.pc = "running"
    /\ gen.g.pos >= 2
    /\ file[gen.g.pos] # <<>>
    /\ Len(file[gen.g.pos]) = Len(file[1])
    /\ gen.out # <<>>

TsvHeader == file[1]

TsvRow == file[gen.g.pos]

LastTriple == gen.out[Len(gen.out)]

IdColumns == {i \in 1..Len(TsvHeader) : TsvHeader[i] = ID}

DistinctNames(h) == \A i, j \in 1..Len(h) : h[i] = h[j] => i = j

\* the columns that are neither the label column nor an id column
FeatureColumns ==
    {i \in 1..Len(TsvHeader) : TsvHeader[i] # ID /\ ~(has_labels /\ i = 1)}

\* C2 (as claimed): in a row of a TSV file (distinct column names), a feature
\* column whose value parses to zero has no entry in the yielded feature map,
\* one that parses to a non-zero number has that number, and one that does not
\* parse has the original string.
C2_ZeroOmitted ==
    (TsvRowYielded /\ DistinctNames(TsvHeader)) =>
        \A i \in FeatureColumns :
            LET name == TsvHeader[i]
                text == TsvRow[i]
                features == LastTriple.features
            IN  IF float_parses(text)
                THEN IF float_of(text) = Float(0, 0)
                     THEN name \notin DOMAIN features
                     ELSE name \in DOMAIN features /\ features[name] = float_of(text)
                ELSE name \in DOMAIN features /\ features[name] = Str(text)

ExampleIds == [i \in 1..Len(gen.out) |-> gen.out[i].id]

ExampleLabels == [i \in 1..Len(gen.out) |-> gen.out[i].class_name]

ExampleDone == IsTsv /\ file = ExampleTsv /\ gen.g.pc = "done"

Ex1 == Str(<<"e", "x", "1">>)

Ex2 == Str(<<"e", "x", "2">>)

\* C3 (as claimed): whenever the header has a column named id, at any position
\* and for either value of has_labels, the yielded id is the row's id value and
\* id is no key of the feature map; without such a column the id is
\* EXAMPLE_<index of the row among the rows read>; the example file with
\* has_labels gives the ids ex1, ex2 and the labels A, B.
C3_IdColumnAnywhere ==
    /\ TsvRowYielded =>
          IF IdColumns # {}
          THEN /\ LastTriple.id = Str(TsvRow[Max(IdColumns)])
               /\ ID \notin DOMAIN LastTriple.features
          ELSE LastTriple.id = example_id(Len(gen.out) - 1)
    /\ (ExampleDone /\ has_labels) =>
          /\ ExampleIds = <<Ex1, Ex2>>
          /\ ExampleLabels = <<Str(<<"A">>), Str(<<"B">>)>>

\* C3 (amended): the id column supplies the id, and is no key of the feature
\* map, unless has_labels is set and id is the first column; then the first
\* column is the label, so the label is the row's id value and the id is
\* EXAMPLE_<index of the row among the non-empty rows>, as it is when there is
\* no id column.  The example file with has_labels gives the ids EXAMPLE_0,
\* EXAMPLE_1 and the labels ex1, ex2; without has_labels the ids ex1, ex2.
C3_IdColumnUnlessLabel ==
    /\ TsvRowYielded =>
          /\ ID \notin DOMAIN LastTriple.features
          /\ IF has_labels /\ TsvHeader[1] = ID
             THEN /\ LastTriple.id = example_id(Len(gen.out) - 1)
                  /\ LastTriple.class_name = Str(TsvRow[Max(IdColumns)])
             ELSE IF IdColumns # {}
             THEN LastTriple.id = Str(TsvRow[Max(IdColumns)])
             ELSE LastTriple.id = example_id(Len(gen.out) - 1)
    /\ ExampleDone =>
          IF has_labels
          THEN /\ ExampleIds = <<example_id(0), example_id(1)>>
               /\ ExampleLabels = <<Ex1, Ex2>>
          ELSE ExampleIds = <<Ex1, Ex2>>

\* C3 witness: the example file was read to its end with has_labels set.
C3_Witness == ExampleDone /\ has_labels /\ Len(gen.out) = 2

\* How the claims about MegaM classify a line of the file.
MegamText(raw) == _sanitize_line(strip(raw))

MegamKind(raw) ==
    LET line == MegamText(raw)
    IN  IF line # <<>> /\ Head(line) = "#" THEN "comment"
        ELSE IF line = <<>> THEN "blank"
        ELSE IF line = TRAIN \/ line = TEST \/ line = DEV THEN "marker"
        ELSE "data"

CommentText(raw) == strip(Tail(MegamText(raw)))

DataLines(n) == {i \in 1..n : MegamKind(file[i]) = "data"}

MegamReading == IsMegam /\ gen.g.pc \in {"running", "done"}

\* C4: after any number of lines read, the examples emitted are those of the
\* data lines read (comment, marker and blank lines emit none), the counter is
\* the number of emitted examples, and the k-th example's id is the text of the
\* last comment line since the previous data line if there is one and
\* EXAMPLE_<k> otherwise.
C4_MegamIds ==
    MegamReading =>
        LET D == DataLines(gen.g.pos)
        IN  /\ Len(gen.out) = Cardinality(D)
            /\ gen.g.example_num = Cardinality(D)
            /\ \A j \in D :
                  LET before == {i \in D : i < j}
                      k == Cardinality(before)
                      prev == Max(before \cup {0})
                      comments == {i \in (prev + 1)..(j - 1) :
                                      MegamKind(file[i]) = "comment"}
                  IN  gen.out[k + 1].id =
                          IF comments # {} THEN Str(CommentText(file[Max(comments)]))
                          ELSE example_id(k)

\* C4 witness: an id line, a marker and a data line were read: the example has
\* the id of the comment, across the marker, and the next default id is EXAMPLE_1.
C4_Witness ==
    /\ IsMegam /\ gen.g.pc = "done" /\ Len(file) = 3
    /\ MegamKind(file[1]) = "comment" /\ file[2] = TRAIN
    /\ MegamKind(file[3]) = "data"
    /\ Len(gen.out) = 1 /\ gen.out[1].id = Str(<<"b">>)
    /\ gen.g.curr_id = example_id(1)

\* C10: a data line never raises; its label is the first token when has_labels
\* is set; the names of its feature map are the tokens at the even (0-based)
\* places that have a value after them, and a name's value is the token after
\* its last occurrence, as a number when it parses and as the string otherwise.
C10_MegamPairs ==
    /\ (IsMegam /\ gen.g.pc = "raised") => gen.g.pos = 0
    /\ (MegamReading /\ gen.g.pos >= 1 /\ MegamKind(file[gen.g.pos]) = "data"
          /\ gen.out # <<>>) =>
          LET tokens == split(MegamText(file[gen.g.pos]))
              ft == IF has_labels THEN Tail(tokens) ELSE tokens
              n == Len(ft) \div 2
              features == LastTriple.features
          IN  /\ LastTriple.class_name =
                     (IF has_labels THEN Str(tokens[1]) ELSE None)
              /\ DOMAIN features = {ft[2 * j - 1] : j \in 1..n}
              /\ \A j \in 1..n :
                    (\A k \in (j + 1)..n : ft[2 * k - 1] # ft[2 * j - 1]) =>
                        features[ft[2 * j - 1]] =
                            IF float_parses(ft[2 * j]) THEN float_of(ft[2 * j])
                            ELSE Str(ft[2 * j])

\* C10 witness: the line "B f 0 f x g" read with labels: f occurs twice and g
\* has no value; the map holds f with the string x only.
C10_Witness ==
    /\ MegamReading /\ has_labels /\ gen.g.pos >= 1
    /\ split(file[gen.g.pos]) =
           << <<"B">>, <<"f">>, <<"0">>, <<"f">>, <<"x">>, <<"g">> >>
    /\ gen.out # <<>>
    /\ LastTriple.features = [name \in {<<"f">>} |-> Str(<<"x">>)]

(***************************************************************************)
(* DictVectorizer.fit_transform as _features_for_gen_func uses it (data.py *)
(* 72-77).  A string-valued feature f with value v is the column "f=v"     *)
(* with the number 1; any other feature is the column f with its value.    *)
(* The vocabulary is kept as the set of column names and a row of the      *)
(* matrix as the function from column names to numbers: the order of the   *)
(* columns is not modelled.                                                *)
(***************************************************************************)
column_of(f, v) == IF v.t = "str" THEN f \o <<"=">> \o v.s ELSE f

number_of(v) == IF v.t = "str" THEN Float(1, 0) ELSE v

vocabulary(X) ==
    UNION { {column_of(f, X[i][f]) : f \in DOMAIN X[i]} : i \in 1..Len(X) }

transform_row(vocab, x) ==
    [c \in vocab |->
        IF \E f \in DOMAIN x : column_of(f, x[f]) = c
        THEN number_of(x[CHOOSE f \in DOMAIN x : column_of(f, x[f]) = c])
        ELSE Float(0, 0)]

fit_transform(X) ==
    LET vocab == vocabulary(X)
    IN  [features |-> [i \in 1..Len(X) |-> transform_row(vocab, X[i])],
         feat_vectorizer |-> vocab]

(***************************************************************************)
(* load_examples (data.py 80-141) and its three workers (data.py 48-77).   *)
(***************************************************************************)
Workers == {"ids", "classes", "features"}

\* a mutation of choose_iterator: any other suffix is read as MegaM
choose_iterator_default(p) ==
    IF endswith(p, TSV) THEN "_tsv_dict_iter"
    ELSE IF endswith(p, JSONLINES) THEN "_json_dict_iter"
    ELSE "_megam_dict_iter"

\* lines 108-117: the iterator for the path's suffix, "raise" for any other
choose_iterator(p) ==
    IF endswith(p, TSV) THEN "_tsv_dict_iter"
    ELSE IF endswith(p, JSONLINES) THEN "_json_dict_iter"
    ELSE IF endswith(p, MEGAM) THEN "_megam_dict_iter"
    ELSE "raise"

\* a mutation of project: the classes worker keeps the first element
project_first(w, triple) ==
    CASE w = "ids" -> triple.id
      [] w = "classes" -> triple.id
      [] w = "features" -> triple.features

\* lines 53, 62, 73: what each worker keeps of a triple
project(w, triple) ==
    CASE w = "ids" -> triple.id
      [] w = "classes" -> triple.class_name
      [] w = "features" -> triple.features

\* lines 54, 63, 75: the ids and classes workers read with quiet=True
worker_quiet(w, q) == IF w = "features" THEN q ELSE TRUE

\* lines 53, 62, 76-77: the value a worker returns from what it kept
worker_value(w, kept) == IF w = "features" THEN fit_transform(kept) ELSE kept

\* a mutation of get: a failed task's result is an empty value instead of a raise
get_none(task) ==
    [raised |-> FALSE,
     value |-> IF task.st = "failed"
               THEN [features |-> <<>>, feat_vectorizer |-> {}]
               ELSE task.value]

\* AsyncResult.get() after join (lines 137-139): the task's value, or its
\* exception raised again in the caller
get(task) ==
    IF task.st = "failed" THEN [raised |-> TRUE, value |-> Idle]
    ELSE [raised |-> FALSE, value |-> task.value]

NoLocals == [ids |-> Idle, classes |-> Idle, features |-> Idle]

LoadPaths ==
    { PathOf(f) : f \in Funcs }
    \cup { TSV,                                     \* the suffix alone
           <<"t", "s", "v">>,                       \* no dot
           <<"d", ".", "c", "s", "v">>,
           <<"d">> \o TSV \o <<".", "g", "z">>,     \* the suffix inside
           <<"d", ".", "T", "S", "V">> }

LoadMegamPool ==
    { <<"#", " ", "b", " ">>, TRAIN, <<"A", " ", "f", " ", "1">>,
      <<"B", " ", "f", " ", "0", " ", "f", " ", "x", " ", "g">> }

LoadJsonPool ==
    { [id |-> Str(<<"a">>), y |-> Str(<<"A">>), x |-> F1],
      [y |-> Str(<<"B">>), x |-> F0x],
      Malformed }

LoadTsvHeaders == { <<<<"l">>, ID, <<"f">>>>, <<<<"l">>, <<"f">>>> }

LoadTsvRows(fieldnames) ==
    LET w == Len(fieldnames)
    IN  { SubSeq(r, 1, w) : r \in {x \in TsvFullRows : x[1] \in {<<"a">>, <<"b">>}} }
        \cup { <<>>, SubSeq(CHOOSE r \in TsvFullRows : r[1] = <<"a">>, 1, w + 1) }

LoadFiles(func, n) ==
    CASE func = "_megam_dict_iter" -> SeqsUpTo(LoadMegamPool, n)
      [] func = "_json_dict_iter" -> SeqsUpTo(LoadJsonPool, n)
      [] func = "_tsv_dict_iter" ->
             { <<>> } \cup
             UNION { { <<h>> \o rows : rows \in SeqsUpTo(LoadTsvRows(h), n) } :
                     h \in LoadTsvHeaders }
      [] OTHER -> { <<>> }

Init ==
    /\ path \in LoadPaths
    /\ file \in LoadFiles(choose_iterator(path), MaxLoadLines)
    /\ has_labels \in BOOLEAN
    /\ quiet \in BOOLEAN
    /\ pc = "dispatch"
    /\ example_gen_func = Idle
    /\ worker = [w \in Workers |-> [st |-> "none", g |-> new_generator,
                                    kept |-> <<>>, value |-> Idle]]
    /\ opened = 0
    /\ local = NoLocals
    /\ outcome = [kind |-> "none"]
    /\ gen = Idle /\ examples = Idle /\ table = Idle
    /\ predictor = Idle /\ preds_out = Idle

args == <<path, has_labels, quiet, file>>

\* lines 108-117
Dispatch ==
    /\ pc = "dispatch"
    /\ LET f == choose_iterator(path)
       IN  IF f = "raise"
           THEN /\ pc' = "raised"
                /\ outcome' = [kind |-> "raised", at |-> "dispatch",
                               specified |-> path]
                /\ UNCHANGED example_gen_func
           ELSE /\ pc' = "pool"
                /\ example_gen_func' = f
                /\ UNCHANGED outcome
    /\ UNCHANGED <<args, gen, worker, opened, local>> /\ UNCHANGED otherVars

\* lines 123-132: Pool(3) and the three apply_async calls
Submit ==
    /\ pc = "pool"
    /\ worker' = [w \in Workers |-> [worker[w] EXCEPT !.st = "queued"]]
    /\ pc' = "join"
    /\ UNCHANGED <<args, gen, example_gen_func, opened, local, outcome>>
    /\ UNCHANGED otherVars

\* a worker starts its task: the generator is made and first advanced
WorkerStart(w) ==
    /\ worker[w].st = "queued"
    /\ \E readable \in BOOLEAN :
          LET g == gen_start(example_gen_func, worker[w].g,
                             worker_quiet(w, quiet), readable, file)
          IN  worker' = [worker EXCEPT ![w].g = g,
                            ![w].st = IF g.pc = "raised" THEN "failed" ELSE "running"]
    /\ opened' = opened + 1
    /\ UNCHANGED <<args, gen, pc, example_gen_func, local, outcome>>
    /\ UNCHANGED otherVars

\* a worker handles the next line of the file
WorkerLine(w) ==
    /\ worker[w].st = "running"
    /\ worker[w].g.pos < Len(file)
    /\ LET r == gen_line(example_gen_func, worker[w].g, file, has_labels,
                         worker_quiet(w, quiet))
           kept == worker[w].kept \o
                       [i \in 1..Len(r.yielded) |-> project(w, r.yielded[i])]
       IN  worker' = [worker EXCEPT ![w].g = r.g, ![w].kept = kept,
                         ![w].st = IF r.g.pc = "raised" THEN "failed" ELSE "running"]
    /\ UNCHANGED <<args, gen, pc, example_gen_func, opened, local, outcome>>
    /\ UNCHANGED otherVars

\* a worker reaches the end of the file and returns its value
WorkerEnd(w) ==
    /\ worker[w].st = "running"
    /\ worker[w].g.pos = Len(file)
    /\ worker' = [worker EXCEPT ![w].g = gen_end(worker[w].g, worker_quiet(w, quiet)),
                                ![w].st = "done",
                                ![w].value = worker_value(w, worker[w].kept)]
    /\ UNCHANGED <<args, gen, pc, example_gen_func, opened, local, outcome>>
    /\ UNCHANGED otherVars

\* lines 135-136: close() and join() return when the three tasks have ended
Join ==
    /\ pc = "join"
    /\ \A w \in Workers : worker[w].st \in {"done", "failed"}
    /\ pc' = "get_ids"
    /\ UNCHANGED <<args, gen, example_gen_func, worker, opened, local, outcome>>
    /\ UNCHANGED otherVars

Fetch(w, here, next) ==
    /\ pc = here
    /\ LET r == get(worker[w])
       IN  IF r.raised
           THEN /\ pc' = "raised"
                /\ outcome' = [kind |-> "raised", at |-> w, specified |-> <<>>]
                /\ UNCHANGED local
           ELSE /\ pc' = next
                /\ local' = [local EXCEPT ![w] = r.value]
                /\ UNCHANGED outcome
    /\ UNCHANGED <<args, gen, example_gen_func, worker, opened>>
    /\ UNCHANGED otherVars

\* line 137
GetIds == Fetch("ids", "get_ids", "get_classes")

\* line 138
GetClasses == Fetch("classes", "get_classes", "get_features")

\* line 139
GetFeatures == Fetch("features", "get_features", "return")

\* line 141
Return ==
    /\ pc = "return"
    /\ pc' = "returned"
    /\ outcome' = [kind |-> "returned", ids |-> local.ids,
                   classes |-> local.classes,
                   features |-> local.features.features,
                   feat_vectorizer |-> local.features.feat_vectorizer]
    /\ UNCHANGED <<args, gen, example_gen_func, worker, opened, local>>
    /\ UNCHANGED otherVars

Next ==
    \/ Dispatch
    \/ Submit
    \/ \E w \in Workers : WorkerStart(w)
    \/ \E w \in Workers : WorkerLine(w)
    \/ \E w \in Workers : WorkerEnd(w)
    \/ Join
    \/ GetIds
    \/ GetClasses
    \/ GetFeatures
    \/ Return

Spec == Init /\ [][Next]_vars

(***************************************************************************)
(* One sequential pass of an iterator over a readable file, as each worker *)
(* makes it (data.py 53-54, 62-63, 73-75): the list of the triples yielded *)
(* and whether the pass ended without raising.                             *)
(***************************************************************************)
RECURSIVE pass_from(_, _, _, _, _)
pass_from(func, g, f, hl, out) ==
    IF g.pc = "raised" THEN [ok |-> FALSE, out |-> out]
    ELSE IF g.pos = Len(f) THEN [ok |-> TRUE, out |-> out]
    ELSE LET r == gen_line(func, g, f, hl, TRUE)
         IN  pass_from(func, r.g, f, hl, out \o r.yielded)

sequential_pass(func, f, hl) ==
    pass_from(func, gen_start(func, new_generator, TRUE, TRUE, f), f, hl, <<>>)

(***************************************************************************)
(* Properties of load_examples (checked under Spec).                       *)
(***************************************************************************)
\* C1: whatever the interleaving of the three workers, a returned table is
\* aligned with one sequential pass of the chosen iterator over the file: ids,
\* classes and feature rows have the pass's length, and at each position they
\* are the id, the label and the vectorised feature map of the pass's triple.
C1_Aligned ==
    pc = "returned" =>
        LET ref == sequential_pass(example_gen_func, file, has_labels)
            N == Len(ref.out)
        IN  /\ ref.ok
            /\ Len(outcome.ids) = N
            /\ Len(outcome.classes) = N
            /\ Len(outcome.features) = N
            /\ \A i \in 1..N :
                  /\ outcome.ids[i] = ref.out[i].id
                  /\ outcome.classes[i] = ref.out[i].class_name
                  /\ outcome.features[i] =
                         transform_row(outcome.feat_vectorizer, ref.out[i].features)

\* C1 witness: a MegaM file of two examples was loaded with labels and progress
\* output, and the table was returned.
C1_Witness ==
    /\ pc = "returned" /\ example_gen_func = "_megam_dict_iter"
    /\ has_labels /\ ~quiet
    /\ outcome.ids = <<example_id(0), example_id(1)>>
    /\ outcome.classes = <<Str(<<"B">>), Str(<<"A">>)>>
    /\ outcome.feat_vectorizer = {<<"f">>, <<"f", "=", "x">>}

Ended == {"returned", "raised"}

AfterJoin == {"get_ids", "get_classes", "get_features", "return", "returned"}

\* C5: a table is returned only when all three workers completed; the caller
\* passes join only when all three have ended; and a call that has ended with
\* any worker failed has raised and carries no table.
C5_AllOrNothing ==
    /\ (pc \in {"return", "returned"} \/ outcome.kind = "returned") =>
           \A w \in Workers : worker[w].st = "done"
    /\ pc \in AfterJoin =>
           \A w \in Workers : worker[w].st \in {"done", "failed"}
    /\ (pc \in Ended /\ \E w \in Workers : worker[w].st = "failed") =>
           /\ pc = "raised"
           /\ outcome.kind = "raised"
           /\ DOMAIN outcome = {"kind", "at", "specified"}

\* C5 witness: only the classes worker failed, the other two completed, and
\* the call raised.
C5_Witness ==
    /\ pc = "raised"
    /\ worker["classes"].st = "failed"
    /\ worker["ids"].st = "done" /\ worker["features"].st = "done"
    /\ outcome.kind = "raised" /\ outcome.at = "classes"

HasSuffix(p, sfx) == \E k \in 0..Len(p) : SubSeq(p, k + 1, Len(p)) = sfx

Supported(p) == HasSuffix(p, TSV) \/ HasSuffix(p, JSONLINES) \/ HasSuffix(p, MEGAM)

\* C6: once past the dispatch, a path with none of the three suffixes has made
\* the call raise, naming the path, with no file opened and no worker given a
\* task; a path with one of the suffixes has selected the matching iterator.
C6_Dispatch ==
    pc # "dispatch" =>
        IF Supported(path)
        THEN /\ HasSuffix(path, TSV) => example_gen_func = "_tsv_dict_iter"
             /\ HasSuffix(path, JSONLINES) => example_gen_func = "_json_dict_iter"
             /\ HasSuffix(path, MEGAM) => example_gen_func = "_megam_dict_iter"
             /\ ~(outcome.kind = "raised" /\ outcome.at = "dispatch")
        ELSE /\ pc = "raised"
             /\ outcome.kind = "raised" /\ outcome.at = "dispatch"
             /\ outcome.specified = path
             /\ opened = 0
             /\ \A w \in Workers : worker[w].st = "none"

\* C6 witness: a path that holds .tsv but does not end with it has raised.
C6_Witness ==
    /\ pc = "raised" /\ outcome.kind = "raised" /\ outcome.at = "dispatch"
    /\ path = <<"d">> \o TSV \o <<".", "g", "z">>
    /\ opened = 0

(***************************************************************************)
(* load_examples as one step (data.py 80-141): the table of a readable     *)
(* file, from one pass per projection.  By C1 the interleaving of the      *)
(* three workers does not show in the result.  dicts keeps the feature     *)
(* maps the features worker consumed.                                      *)
(***************************************************************************)
table_of(p) ==
    LET kept(w) == [i \in 1..Len(p.out) |-> project(w, p.out[i])]
        fv == worker_value("features", kept("features"))
    IN  IF p.ok
        THEN [st |-> "returned",
              ids |-> worker_value("ids", kept("ids")),
              classes |-> worker_value("classes", kept("classes")),
              features |-> fv.features,
              feat_vectorizer |-> fv.feat_vectorizer,
              dicts |-> kept("features")]
        ELSE [st |-> "raised"]

load_table(func, f, hl) == table_of(sequential_pass(func, f, hl))

NotLoaded == [st |-> "none"]

(***************************************************************************)
(* StripSpec: a file with labels is loaded with has_labels, and the same   *)
(* file without its labels is loaded without has_labels.                   *)
(***************************************************************************)
\* a line without its first token
RECURSIVE drop_token(_)
drop_token(s) ==
    IF s = <<>> \/ Head(s) \in Whitespace THEN s ELSE drop_token(Tail(s))

\* a row of fields without its first field, as csv.reader reads the line
\* written from it (a line that holds one empty field is an empty line)
drop_field(fields) ==
    IF fields = <<>> \/ Tail(fields) = << <<>> >> THEN <<>> ELSE Tail(fields)

\* the file without its label column / y field / leading label token
without_labels(func, f) ==
    CASE func = "_tsv_dict_iter" -> [i \in 1..Len(f) |-> drop_field(f[i])]
      [] func = "_json_dict_iter" ->
             [i \in 1..Len(f) |->
                 IF f[i] = Malformed THEN f[i]
                 ELSE [k \in (DOMAIN f[i]) \ {"y"} |-> f[i][k]]]
      [] func = "_megam_dict_iter" ->
             [i \in 1..Len(f) |->
                 IF MegamKind(f[i]) = "data" THEN drop_token(lstrip(f[i]))
                 ELSE f[i]]

\* the files that carry a label on every example
Labelled(func, f) ==
    CASE func = "_tsv_dict_iter" -> f # <<>> /\ f[1] # <<>>
      [] func = "_json_dict_iter" ->
             \A i \in 1..Len(f) : f[i] = Malformed \/ "y" \in DOMAIN f[i]
      [] func = "_megam_dict_iter" -> TRUE

StripInit ==
    /\ example_gen_func \in Funcs
    /\ file \in {f \in Files(example_gen_func, MaxLines) :
                    Labelled(example_gen_func, f)}
    /\ path = PathOf(example_gen_func)
    /\ has_labels = TRUE
    /\ quiet = TRUE
    /\ table = [labelled |-> NotLoaded, unlabelled |-> NotLoaded]
    /\ examples = Idle /\ gen = Idle /\ opened = 0
    /\ pc = Idle /\ worker = Idle /\ local = Idle /\ outcome = Idle
    /\ predictor = Idle /\ preds_out = Idle

tableUnchanged ==
    UNCHANGED <<path, has_labels, quiet, file, gen, pc, example_gen_func,
                worker, opened, local, outcome, examples, predictor, preds_out>>

LoadLabelled ==
    /\ table.labelled.st = "none"
    /\ table' = [table EXCEPT !.labelled =
                     load_table(example_gen_func, file, TRUE)]
    /\ tableUnchanged

LoadUnlabelled ==
    /\ table.unlabelled.st = "none"
    /\ table' = [table EXCEPT !.unlabelled =
                     load_table(example_gen_func,
                                without_labels(example_gen_func, file), FALSE)]
    /\ tableUnchanged

StripNext == LoadLabelled \/ LoadUnlabelled

StripSpec == StripInit /\ [][StripNext]_vars

BothLoaded ==
    table.labelled.st = "returned" /\ table.unlabelled.st = "returned"

SameIdsAndFeatures ==
    /\ table.labelled.ids = table.unlabelled.ids
    /\ table.labelled.dicts = table.unlabelled.dicts
    /\ table.labelled.features = table.unlabelled.features
    /\ table.labelled.feat_vectorizer = table.unlabelled.feat_vectorizer

\* C7 (as claimed): for every file with labels, the load with has_labels and
\* the load of the file without its labels give the same ids, the same feature
\* maps and the same feature matrix.
C7_SameWithoutLabels == BothLoaded => SameIdsAndFeatures

\* Removing the label leaves every example line an example line: in MegaM what
\* follows the label is not empty, does not begin with # and is not a marker;
\* in TSV every non-empty row keeps a field that is not a lone empty field, and
\* no other column has the label column's name.
LabelSeparable ==
    CASE example_gen_func = "_tsv_dict_iter" ->
             /\ \A i \in 2..Len(file[1]) : file[1][i] # file[1][1]
             /\ \A i \in 1..Len(file) :
                   file[i] # <<>> =>
                       (Len(file[i]) >= 2 /\ Tail(file[i]) # << <<>> >>)
      [] example_gen_func = "_json_dict_iter" -> TRUE
      [] example_gen_func = "_megam_dict_iter" ->
             \A i \in 1..Len(file) :
                 MegamKind(file[i]) = "data" =>
                     MegamKind(drop_token(lstrip(file[i]))) = "data"

\* C7 (amended): the two loads agree on ids, feature maps and feature matrix
\* whenever removing the label leaves every example line an example line.
C7_SameWhenSeparable == (BothLoaded /\ LabelSeparable) => SameIdsAndFeatures

\* C7 witness: a MegaM file with an id line and two labelled examples, loaded
\* both ways.
C7_Witness ==
    /\ BothLoaded /\ LabelSeparable /\ IsMegam
    /\ table.labelled.ids = <<Str(<<"b">>), example_id(1)>>
    /\ table.labelled.classes = <<Str(<<"A">>), Str(<<"B">>)>>
    /\ table.unlabelled.classes = <<None, None>>

(***************************************************************************)
(* EncSpec: the same logical examples written as a .tsv, a .jsonlines and  *)
(* a .megam file, each loaded with has_labels.  A logical example has an   *)
(* id, a label and a value for each of the features f and g; a value is    *)
(* the text of a number or of a string.                                    *)
(***************************************************************************)
FeatureNames == <<<<"f">>, <<"g">>>>

ValueTexts == { <<"1">>, <<"0", ".", "0">>, <<"x">> }

LogicalExamples ==
    [id : {<<"a">>}, label : {<<"A">>, <<"B">>},
     values : [1..Len(FeatureNames) -> ValueTexts]]

\* ids are made distinct by the example's position
with_ids(E) == [i \in 1..Len(E) |-> [E[i] EXCEPT !.id = E[i].id \o format_int(i)]]

\* the label first (the column has_labels reads), then id, then the features
encode_tsv(E) ==
    << <<<<"l">>, ID>> \o FeatureNames >> \o
    [i \in 1..Len(E) |->
        <<E[i].label, E[i].id>> \o [j \in 1..Len(FeatureNames) |-> E[i].values[j]]]

\* a number is written as a JSON number, anything else as a JSON string
json_value(text) == IF float_parses(text) THEN float_of(text) ELSE Str(text)

encode_json(E) ==
    [i \in 1..Len(E) |->
        [id |-> Str(E[i].id), y |-> Str(E[i].label),
         x |-> [name \in {FeatureNames[j] : j \in 1..Len(FeatureNames)} |->
                   json_value(E[i].values[CHOOSE j \in 1..Len(FeatureNames) :
                                              FeatureNames[j] = name])]]]

RECURSIVE join_pairs(_, _)
join_pairs(values, j) ==
    IF j > Len(FeatureNames) THEN <<>>
    ELSE <<" ">> \o FeatureNames[j] \o <<" ">> \o values[j] \o join_pairs(values, j + 1)

\* "#id" on one line, "label f value g value" on the next
encode_megam(E) ==
    [k \in 1..(2 * Len(E)) |->
        LET e == E[(k + 1) \div 2]
        IN  IF k % 2 = 1 THEN <<"#">> \o e.id
            ELSE e.label \o join_pairs(e.values, 1)]

EncInit ==
    /\ examples \in { with_ids(E) : E \in SeqsUpTo(LogicalExamples, MaxExamples) }
    /\ file = [tsv |-> encode_tsv(examples), jsonlines |-> encode_json(examples),
               megam |-> encode_megam(examples)]
    /\ has_labels = TRUE
    /\ quiet = TRUE
    /\ table = [tsv |-> NotLoaded, jsonlines |-> NotLoaded, megam |-> NotLoaded]
    /\ path = Idle /\ example_gen_func = Idle /\ gen = Idle /\ opened = 0
    /\ pc = Idle /\ worker = Idle /\ local = Idle /\ outcome = Idle
    /\ predictor = Idle /\ preds_out = Idle

LoadTsv ==
    /\ table.tsv.st = "none"
    /\ table' = [table EXCEPT !.tsv =
                     load_table("_tsv_dict_iter", file.tsv, has_labels)]
    /\ tableUnchanged

LoadJson ==
    /\ table.jsonlines.st = "none"
    /\ table' = [table EXCEPT !.jsonlines =
                     load_table("_json_dict_iter", file.jsonlines, has_labels)]
    /\ tableUnchanged

LoadMegam ==
    /\ table.megam.st = "none"
    /\ table' = [table EXCEPT !.megam =
                     load_table("_megam_dict_iter", file.megam, has_labels)]
    /\ tableUnchanged

EncNext == LoadTsv \/ LoadJson \/ LoadMegam

EncSpec == EncInit /\ [][EncNext]_vars

AllLoaded ==
    /\ table.tsv.st = "returned"
    /\ table.jsonlines.st = "returned"
    /\ table.megam.st = "returned"

SameTable(a, b) ==
    /\ a.ids = b.ids
    /\ a.classes = b.classes
    /\ a.feat_vectorizer = b.feat_vectorizer   \* the same columns, in any order
    /\ a.features = b.features                 \* the same value in each column

\* C8 (as claimed): the three files of the same logical examples load to the
\* same ids, the same labels and the same feature matrix up to the order of
\* the columns.
C8_SameAcrossFormats ==
    AllLoaded =>
        /\ SameTable(table.tsv, table.jsonlines)
        /\ SameTable(table.jsonlines, table.megam)

(***************************************************************************)
(* Predictor (generate_predictions.py 17-64).  The classifier is outside   *)
(* the source: its fields and the list its predict returns are inputs.     *)
(***************************************************************************)
PyInt(n) == [t |-> "int", m |-> n, e |-> 0, s |-> <<>>]

RECURSIVE pow10(_)
pow10(n) == IF n = 0 THEN 1 ELSE 10 * pow10(n - 1)

\* a >= b on numbers
ge(a, b) == a.m * pow10(b.e) >= b.m * pow10(a.e)

\* a mutation of ge: a > b
gt(a, b) == a.m * pow10(b.e) > b.m * pow10(a.e)

\* int(x): the integer part, towards zero
int(x) ==
    IF x.m >= 0 THEN x.m \div pow10(x.e) ELSE 0 - ((0 - x.m) \div pow10(x.e))

\* int(True) and int(False)
int_of_bool(b) == PyInt(IF b THEN 1 ELSE 0)

\* the model types imported from the classifier module
_REGRESSION_MODELS == {"ridge", "svr"}

\* a mutation of meets_threshold: the threshold must be exceeded
exceeds_threshold(pred, pos_index, threshold) ==
    int_of_bool(gt(pred[pos_index + 1], threshold))

\* line 59: int(pred[self._pos_index] >= self.threshold)
meets_threshold(pred, pos_index, threshold) ==
    int_of_bool(ge(pred[pos_index + 1], threshold))

\* lines 53-64, with preds the list of line 53
predict(p) ==
    IF p.probability
    THEN IF p.threshold = None
         THEN [i \in 1..Len(p.preds) |-> p.preds[i][p._pos_index + 1]]
         ELSE [i \in 1..Len(p.preds) |->
                  meets_threshold(p.preds[i], p._pos_index, p.threshold)]
    ELSE IF p.model_type \in _REGRESSION_MODELS
    THEN p.preds
    ELSE [i \in 1..Len(p.preds) |-> p.label_list[int(p.preds[i][1]) + 1]]

Probabilities ==
    { <<Float(2, 1), Float(8, 1)>>, <<Float(5, 1), Float(5, 1)>>,
      <<Float(75, 2), Float(25, 2)>> }

ClassIndexes == { <<Float(0, 0)>>, <<Float(1, 0)>>, <<Float(20, 1)>> }

RegressionValues == { Float(15, 1), Float(0, 0), Float(0 - 2, 0) }

\* what the classifier's predict returns for each kind of model
PredsOf(probability, model_type) ==
    SeqsUpTo(IF probability THEN Probabilities
             ELSE IF model_type \in _REGRESSION_MODELS THEN RegressionValues
             ELSE ClassIndexes, MaxPreds)

PredInit ==
    /\ \E probability \in BOOLEAN, model_type \in {"svr", "logistic", "svc"} :
          predictor \in
              [probability : {probability}, model_type : {model_type},
               label_list : { <<Str(<<"n", "o">>), Str(<<"y", "e", "s">>),
                                Str(<<"m">>)>> },
               threshold : {None, Float(5, 1), Float(0, 0)},
               _pos_index : {0, 1},
               preds : PredsOf(probability, model_type)]
    /\ preds_out = [st |-> "none"]
    /\ path = Idle /\ has_labels = Idle /\ quiet = Idle /\ file = Idle
    /\ example_gen_func = Idle /\ gen = Idle /\ opened = 0
    /\ pc = Idle /\ worker = Idle /\ local = Idle /\ outcome = Idle
    /\ examples = Idle /\ table = Idle

Predict ==
    /\ preds_out.st = "none"
    /\ preds_out' = [st |-> "returned", value |-> predict(predictor)]
    /\ UNCHANGED <<path, has_labels, quiet, file, gen, pc, example_gen_func,
                   worker, opened, local, outcome, examples, table, predictor>>

PredNext == Predict

PredSpec == PredInit /\ [][PredNext]_vars

\* the decimal a is at least the decimal b
AtLeast(a, b) == \E d \in 0..1000 : a.m * pow10(b.e) = b.m * pow10(a.e) + d

\* C9: predict returns one output per prediction of the classifier: with the
\* probability flag and no threshold the positive class's probability; with
\* the flag and a threshold 1 when that probability is at least the threshold
\* and 0 otherwise; without the flag the raw prediction for a regression model
\* and otherwise the label at the predicted index.
C9_Predict ==
    preds_out.st = "returned" =>
        LET p == predictor
            out == preds_out.value
        IN  /\ Len(out) = Len(p.preds)
            /\ \A i \in 1..Len(out) :
                  LET positive == p.preds[i][p._pos_index + 1]
                  IN  CASE p.probability /\ p.threshold.t = "none" ->
                               out[i] = positive
                        [] p.probability /\ p.threshold.t # "none" ->
                               /\ AtLeast(positive, p.threshold) => out[i] = PyInt(1)
                               /\ ~AtLeast(positive, p.threshold) => out[i] = PyInt(0)
                        [] ~p.probability /\ p.model_type \in {"ridge", "svr"} ->
                               out[i] = p.preds[i]
                        [] OTHER ->
                               \E k \in 0..2 :
                                   /\ p.preds[i][1] \in {Float(k, 0), Float(10 * k, 1)}
                                   /\ out[i] = p.label_list[k + 1]

\* C9 witness: a probability equal to the threshold gives 1, a smaller one 0.
C9_Witness ==
    /\ preds_out.st = "returned"
    /\ predictor.probability /\ predictor.threshold = Float(5, 1)
    /\ predictor._pos_index = 1
    /\ predictor.preds = << <<Float(5, 1), Float(5, 1)>>,
                            <<Float(75, 2), Float(25, 2)>> >>
    /\ preds_out.value = <<PyInt(1), PyInt(0)>>

====
